---- MODULE Spec2Model ----
(***************************************************************************)
(* Model of the statistics helpers of nighttime_scripts.py:                *)
(*   CCC, Cb, getScores, getAccuracy, estimateLR, getParametersForHisto,   *)
(*   estimateChangeInTmin_YieldLoss, the regression annotations            *)
(*   addLinearReg / addLinearReg_v4 and the end of plotHistogram_v5 /      *)
(*   plotMap_Histo_v5.                                                     *)
(*                                                                         *)
(* State.  df is the table handed to the call, call the call in progress   *)
(* (its name, its arguments and, for a call that runs in steps, its        *)
(* position and its locals), result what it returned or raised, files the  *)
(* figure files written so far and ax the matplotlib axes drawn on.        *)
(*                                                                         *)
(* Numbers.  numpy doubles are modelled by exact extended rationals        *)
(* [n, d] with d >= 0 in lowest terms:  d > 0 is the finite value n/d,     *)
(* <<1,0>> is +inf, <<-1,0>> is -inf and <<0,0>> is NaN (which is also     *)
(* how pandas stores a missing cell).  Square roots are kept exact as      *)
(* signed surds [sg, sq] = sg * sqrt(sq).  Floating point round-off is     *)
(* not modelled.                                                           *)
(***************************************************************************)
EXTENDS Integers, Sequences, FiniteSets, TLC

VARIABLES df, call, result, files, ax

vars == <<df, call, result, files, ax>>

(***************************************************************************)
(* Bounds of the model.                                                    *)
(***************************************************************************)
MaxRows == 3
MaxObs == 2
MaxSim == 3
MaxNaRows == 3
MaxNaObs == 1
MaxNaSim == 2
MaxDataLen == 3
MaxData == 3
MaxBins == 3
MaxRules == 2

(***************************************************************************)
(* Extended rational arithmetic (numpy float64 semantics, exact).          *)
(***************************************************************************)
IAbs(i) == IF i < 0 THEN -i ELSE i

Sign(i) == IF i > 0 THEN 1 ELSE IF i < 0 THEN -1 ELSE 0

RECURSIVE Gcd(_, _)
Gcd(a, b) == IF b = 0 THEN a ELSE Gcd(b, a % b)

Norm(n, d) ==
    IF d = 0 THEN [n |-> Sign(n), d |-> 0]
    ELSE IF d = 1 THEN [n |-> n, d |-> 1]
    ELSE LET g == Gcd(IAbs(n), IAbs(d))
         IN  [n |-> (Sign(d) * n) \div g, d |-> IAbs(d) \div g]

R(i) == [n |-> i, d |-> 1]

NaN == [n |-> 0, d |-> 0]

IsNaN(a) == a.d = 0 /\ a.n = 0

Neg(a) == [n |-> -a.n, d |-> a.d]

Abs(a) == [n |-> IAbs(a.n), d |-> a.d]

Add(a, b) ==
    IF a.d = 0 /\ b.d = 0
    THEN (IF a.n = b.n THEN a ELSE NaN)
    ELSE IF a.d = b.d THEN Norm(a.n + b.n, a.d)
    ELSE IF a.d = 0 \/ b.d = 0 THEN Norm(a.n * b.d + b.n * a.d, 0)
    ELSE LET g == Gcd(a.d, b.d)
         IN  Norm(a.n * (b.d \div g) + b.n * (a.d \div g), (a.d \div g) * b.d)

Sub(a, b) == Add(a, Neg(b))

Mul(a, b) ==
    IF a.d = 1 /\ b.d = 1 THEN [n |-> a.n * b.n, d |-> 1]
    ELSE IF a.d = 0 \/ b.d = 0 \/ a.n = 0 \/ b.n = 0
    THEN Norm(Sign(a.n) * Sign(b.n), a.d * b.d)
    ELSE LET g == Gcd(IAbs(a.n), b.d)
             h == Gcd(IAbs(b.n), a.d)
         IN  [n |-> (a.n \div g) * (b.n \div h),
              d |-> (a.d \div h) * (b.d \div g)]

Inv(a) == Norm(a.d, a.n)

Div(a, b) == Mul(a, Inv(b))

Sq(a) == Mul(a, a)

Leq(a, b) ==
    IF IsNaN(a) \/ IsNaN(b) THEN FALSE
    ELSE IF a.d = 0 /\ b.d = 0 THEN a.n <= b.n
    ELSE IF a.d = 0 THEN a.n < 0
    ELSE IF b.d = 0 THEN b.n > 0
    ELSE a.n * b.d <= b.n * a.d

Lt(a, b) == Leq(a, b) /\ a # b

(* numpy arrays are sequences of numbers; element-wise expressions are    *)
(* written [i \in 1..Len(x) |-> ...]                                      *)
RECURSIVE Sum(_)
Sum(s) == IF Len(s) = 0 THEN R(0) ELSE Add(Head(s), Sum(Tail(s)))

(* np.mean: the mean of an empty array is NaN (0/0) *)
Mean(s) == Div(Sum(s), R(Len(s)))

(* np.var, default ddof = 0 *)
Var(s) == LET m == Mean(s) IN Mean([i \in 1..Len(s) |-> Sq(Sub(s[i], m))])

(* np.cov(x, y, ddof)[0,1] *)
CovDdof(x, y, ddof) ==
    LET mx == Mean(x)
        my == Mean(y)
    IN  Div(Sum([i \in 1..Len(x) |-> Mul(Sub(x[i], mx), Sub(y[i], my))]),
            R(Len(x) - ddof))

(* np.cov, default ddof = 1 (divisor n - 1) *)
Cov(x, y) == CovDdof(x, y, 1)

(***************************************************************************)
(* Signed surds sg * sqrt(sq): np.sqrt, np.corrcoef and what is derived    *)
(* from them.                                                              *)
(***************************************************************************)
Surd(s, q) ==
    IF IsNaN(q) \/ q.n < 0 THEN [sg |-> 0, sq |-> NaN]
    ELSE IF q.n = 0 THEN [sg |-> 0, sq |-> q]
    ELSE [sg |-> s, sq |-> q]

SIsNaN(a) == IsNaN(a.sq)

SOfRat(q) == Surd(Sign(q.n), Sq(q))

Sqrt(q) == Surd(1, q)

SMul(a, b) == Surd(a.sg * b.sg, Mul(a.sq, b.sq))

SDiv(a, b) ==
    Surd(a.sg * (IF b.sg = 0 THEN 1 ELSE b.sg), Div(a.sq, b.sq))

(* a surd times / over a rational *)
SScale(q, a) == SMul(SOfRat(q), a)

SOver(a, q) == SDiv(a, SOfRat(q))

(* np.corrcoef(x, y)[0,1] = c01 / sqrt(c00) / sqrt(c11), c = np.cov(x, y) *)
Corrcoef(x, y) ==
    SDiv(SDiv(SOfRat(Cov(x, y)), Sqrt(Cov(x, x))), Sqrt(Cov(y, y)))

(***************************************************************************)
(* round(v, k) on a numpy double: round-half-even at k decimals; NaN and   *)
(* the infinities are returned unchanged.                                  *)
(***************************************************************************)
RECURSIVE Pow10(_)
Pow10(k) == IF k = 0 THEN 1 ELSE 10 * Pow10(k - 1)

RInt(n, d) ==
    LET f == (2 * n + d) \div (2 * d)
        tie == (2 * n + d) % (2 * d) = 0
    IN  IF tie /\ f % 2 # 0 THEN f - 1 ELSE f

Round(q, k) ==
    IF q.d = 0 THEN q
    ELSE LET s == Mul(q, R(Pow10(k))) IN Norm(RInt(s.n, s.d), Pow10(k))

RECURSIVE ISqrtFrom(_, _)
ISqrtFrom(n, k) == IF (k + 1) * (k + 1) > n THEN k ELSE ISqrtFrom(n, k + 1)

(* round of a surd: the same rule on |sg * sqrt(sq)| * 10^k, then the sign *)
SRound(a, k) ==
    IF a.sq.d = 0 THEN (IF IsNaN(a.sq) THEN NaN ELSE [n |-> a.sg, d |-> 0])
    ELSE LET s == Mul(a.sq, R(Pow10(k) * Pow10(k)))
             q == s.n \div s.d
             h0 == ISqrtFrom(q, 0)
             \* (2 h0 + 1)^2 * s.d against 4 * s.n, both less 4 * q * s.d
             lhs == ((2 * h0 + 1) * (2 * h0 + 1) - 4 * q) * s.d
             rhs == 4 * (s.n % s.d)
             h == IF lhs < rhs \/ (lhs = rhs /\ h0 % 2 # 0)
                  THEN h0 + 1 ELSE h0
         IN  Norm(a.sg * h, Pow10(k))

(***************************************************************************)
(* The table: a pandas DataFrame with the columns Obs and Sim; a missing   *)
(* cell is NaN.  Field arguments are column names or None.                 *)
(***************************************************************************)
Columns == {"Obs", "Sim"}

None == "None"

(* df[fld] as an array *)
Col(rows, fld) == [i \in 1..Len(rows) |-> rows[i][fld]]

(* faulty variant of dropna: how = 'all', a row goes only when both cells are missing *)
dropna_how_all(rows, fld1, fld2) ==
    SelectSeq(rows, LAMBDA row : ~(IsNaN(row[fld1]) /\ IsNaN(row[fld2])))

(* DataFrame.dropna() on df[[fld1, fld2]]: how = 'any', order kept *)
dropna(rows, fld1, fld2) ==
    SelectSeq(rows, LAMBDA row : ~IsNaN(row[fld1]) /\ ~IsNaN(row[fld2]))

(* Series.mean(): pandas skips NaN entries (skipna = True) *)
SeriesMean(s) == Mean(SelectSeq(s, LAMBDA v : ~IsNaN(v)))

(***************************************************************************)
(* CCC, lines 397-410                                                      *)
(***************************************************************************)
CCC(y_true, y_pred) ==
    LET s_xy == Cov(y_true, y_pred)
        x_m == Mean(y_true)
        y_m == Mean(y_pred)
        s_x_sq == Var(y_true)
        s_y_sq == Var(y_pred)
    IN  Div(Mul(R(2), s_xy),
            Add(Add(s_x_sq, s_y_sq), Sq(Sub(x_m, y_m))))

(***************************************************************************)
(* Cb, lines 412-433                                                       *)
(***************************************************************************)
CbDenominator(x, y) ==
    LET k == Len(y)
        sy2 == Div(Mul(Var(y), R(k - 1)), R(k))
        sx2 == Div(Mul(Var(x), R(k - 1)), R(k))
    IN  Add(Add(sx2, sy2), Sq(Sub(Mean(y), Mean(x))))

Cb_without_division(x, y) ==
    LET k == Len(y)
        sy2 == Div(Mul(Var(y), R(k - 1)), R(k))
        sx2 == Div(Mul(Var(x), R(k - 1)), R(k))
        r == Corrcoef(x, y)
        sxy == SMul(r, Sqrt(Mul(sx2, sy2)))
    IN  SOver(SScale(R(2), sxy), CbDenominator(x, y))

Cb(x, y) ==
    LET k == Len(y)
        sy2 == Div(Mul(Var(y), R(k - 1)), R(k))
        sx2 == Div(Mul(Var(x), R(k - 1)), R(k))
        r == Corrcoef(x, y)
        sxy == SMul(r, Sqrt(Mul(sx2, sy2)))
        p == SOver(SScale(R(2), sxy), CbDenominator(x, y))
    IN  SDiv(p, r)

(* faulty variant of getAccuracy: the MAPE over actual is used whatever its size *)
getAccuracy_no_fallback(y_true, y_predicted) ==
    LET mape == Mul(SeriesMean([i \in 1..Len(y_true) |-> Abs(Div(Sub(y_true[i], y_predicted[i]), y_true[i]))]), R(100))
    IN  Round(Sub(R(100), mape), 2)

(***************************************************************************)
(* getAccuracy, lines 462-472 (its arguments are pandas Series)            *)
(***************************************************************************)
getAccuracy(y_true, y_predicted) ==
    LET mape == Mul(SeriesMean([i \in 1..Len(y_true) |-> Abs(Div(Sub(y_true[i], y_predicted[i]), y_true[i]))]), R(100))
    IN  IF Leq(mape, R(100))
        THEN Round(Sub(R(100), mape), 2)
        ELSE LET mape2 == Mul(SeriesMean([i \in 1..Len(y_true) |-> Abs(Div(Sub(y_predicted[i], y_true[i]), y_predicted[i]))]), R(100))
             IN  Round(Sub(R(100), mape2), 2)

(***************************************************************************)
(* sklearn.metrics.mean_squared_error: rejects an empty array              *)
(* (ValueError), else the mean of the squared differences.                 *)
(***************************************************************************)
(* faulty variant of mean_squared_error_raises: no check of the sample count *)
mean_squared_error_accepts_empty(y_true, y_pred) == FALSE

mean_squared_error_raises(y_true, y_pred) == Len(y_true) = 0

mean_squared_error(y_true, y_pred) ==
    Mean([i \in 1..Len(y_true) |-> Sq(Sub(y_true[i], y_pred[i]))])

(***************************************************************************)
(* getScores, lines 435-459: the unrounded locals, then the function.      *)
(***************************************************************************)
(* line 450: the value bound to rmse before round() *)
rmse_raw(y_test, y_predicted) == mean_squared_error(y_test, y_predicted)

(* line 452 *)
mape_raw_with_fallback(y_test, y_predicted) ==
    LET m1 == Mul(Mean([i \in 1..Len(y_test) |-> Abs(Div(Sub(y_test[i], y_predicted[i]), y_test[i]))]),
                  R(100))
    IN  IF Leq(m1, R(100)) THEN m1
        ELSE Mul(Mean([i \in 1..Len(y_test) |-> Abs(Div(Sub(y_predicted[i], y_test[i]), y_predicted[i]))]),
                 R(100))

mape_raw(y_test, y_predicted) ==
    Mul(Mean([i \in 1..Len(y_test) |-> Abs(Div(Sub(y_test[i], y_predicted[i]), y_test[i]))]),
        R(100))

(* line 453 *)
d1(y_test, y_predicted) ==
    Sum([i \in 1..Len(y_test) |-> Sq(Sub(y_test[i], y_predicted[i]))])

(* faulty variant of d2: the two deviations are subtracted, not added *)
d2_difference(y_test, y_predicted) ==
    LET m == Mean(y_test)
    IN  Sum([i \in 1..Len(y_test) |-> Sq(Sub(Abs(Sub(y_predicted[i], m)), Abs(Sub(y_test[i], m))))])

(* line 454 *)
d2(y_test, y_predicted) ==
    LET m == Mean(y_test)
    IN  Sum([i \in 1..Len(y_test) |-> Sq(Add(Abs(Sub(y_predicted[i], m)), Abs(Sub(y_test[i], m))))])

(* line 455 before round() *)
d_index_raw(y_test, y_predicted) ==
    Sub(R(1), Div(d1(y_test, y_predicted), d2(y_test, y_predicted)))

(* line 456 before round() *)
ef_raw(y_test, y_predicted) ==
    LET m == Mean(y_test)
    IN  Sub(R(1), Div(Sum([i \in 1..Len(y_test) |-> Sq(Sub(y_test[i], y_predicted[i]))]),
                      Sum([i \in 1..Len(y_test) |-> Sq(Sub(y_test[i], m))])))

(* faulty variant of fields_unset: "and" for "or" *)
fields_unset_both(fld1, fld2) == fld1 = None /\ fld2 = None

(* line 440 *)
fields_unset(fld1, fld2) == fld1 = None \/ fld2 = None

getScores(d, fld1, fld2) ==
    IF d.none THEN [kind |-> "none"]
    ELSE IF fields_unset(fld1, fld2) THEN [kind |-> "none"]
    ELSE IF ~({fld1, fld2} \subseteq Columns)
    THEN [kind |-> "raise", exc |-> "KeyError"]
    ELSE
    LET df_notnull == dropna(d.rows, fld1, fld2)
        y_test == Col(df_notnull, fld1)
        y_predicted == Col(df_notnull, fld2)
        rmse == Round(rmse_raw(y_test, y_predicted), 2)
    IN  IF mean_squared_error_raises(y_test, y_predicted)
        THEN [kind |-> "raise", exc |-> "ValueError"]
        ELSE [kind |-> "report",
              df_notnull |-> df_notnull,
              r2score |-> Round(Corrcoef(y_test, y_predicted).sq, 2),
              mape |-> Round(mape_raw(y_test, y_predicted), 2),
              mse |-> Round(mean_squared_error(y_test, y_predicted), 2),
              rmse |-> rmse,
              n_rmse |-> Round(Div(rmse, Mean(y_test)), 3),
              d_index |-> Round(d_index_raw(y_test, y_predicted), 3),
              ef |-> Round(ef_raw(y_test, y_predicted), 2),
              ccc |-> Round(CCC(y_test, y_predicted), 2),
              cb |-> SRound(Cb(y_test, y_predicted), 2),
              accuracy |-> Round(getAccuracy(y_test, y_predicted), 2)]

(***************************************************************************)
(* estimateLR, lines 475-508.                                              *)
(*                                                                         *)
(* np.polyfit(x, y, deg=1, cov=True): TypeError on an empty x; the least   *)
(* squares line; with cov=True the inverse of the normal matrix is taken   *)
(* (LinAlgError when it is singular: all x equal) and scaled by            *)
(* resids / (len(x) - 2), ValueError unless len(x) > 2.                    *)
(***************************************************************************)
Sxx(x) == LET m == Mean(x) IN Sum([i \in 1..Len(x) |-> Sq(Sub(x[i], m))])

Sxy(x, y) ==
    LET mx == Mean(x)
        my == Mean(y)
    IN  Sum([i \in 1..Len(x) |-> Mul(Sub(x[i], mx), Sub(y[i], my))])

(* faulty variant of polyfit_raises: the covariance is never scaled, so the *)
(* number of points is not checked                                          *)
polyfit_raises_no_length_check(x, y) ==
    IF Len(x) = 0 THEN "TypeError"
    ELSE IF Sxx(x) = R(0) THEN "LinAlgError"
    ELSE "no"

polyfit_raises(x, y) ==
    IF Len(x) = 0 THEN "TypeError"
    ELSE IF Sxx(x) = R(0) THEN "LinAlgError"
    ELSE IF Len(x) <= 2 THEN "ValueError"
    ELSE "no"

(* faulty variant of polyfit_slope: the fit is not centred (line through the origin) *)
polyfit_slope_uncentred(x, y) ==
    Div(Sum([i \in 1..Len(x) |-> Mul(x[i], y[i])]), Sum([i \in 1..Len(x) |-> Sq(x[i])]))

(* p[0], the slope of the least squares line *)
polyfit_slope(x, y) == Div(Sxy(x, y), Sxx(x))

(* faulty variant of polyfit_intercept: the slope * mean(x) term is forgotten *)
polyfit_intercept_uncentred(x, y) == Mean(y)

(* p[1], its intercept *)
polyfit_intercept(x, y) == Sub(Mean(y), Mul(polyfit_slope(x, y), Mean(x)))

(* line 487 *)
y_pred_of(slope, intercept, x) ==
    [i \in 1..Len(x) |-> Add(Mul(slope, x[i]), intercept)]

SSres(y, y_pred) == Sum([i \in 1..Len(y) |-> Sq(Sub(y[i], y_pred[i]))])

(* the diagonal of cov_matrix: the variances of slope and intercept *)
polyfit_cov(x, y) ==
    LET n == Len(x)
        y_pred == y_pred_of(polyfit_slope(x, y), polyfit_intercept(x, y), x)
        fac == Div(SSres(y, y_pred), R(n - 2))
    IN  <<Div(fac, Sxx(x)),
          Div(Mul(fac, Sum([i \in 1..Len(x) |-> Sq(x[i])])), Mul(R(n), Sxx(x)))>>

(* faulty variant of r2_score: the total sum of squares is not centred *)
r2_score_uncentred(y, y_pred) ==
    Sub(R(1), Div(SSres(y, y_pred), Sum([i \in 1..Len(y) |-> Sq(y[i])])))

(* sklearn.metrics.r2_score: 1 - SS_res / SS_tot; when SS_tot = 0 it is    *)
(* 1 for a perfect prediction and 0 otherwise                              *)
r2_score(y, y_pred) ==
    LET m == Mean(y)
        tot == Sum([i \in 1..Len(y) |-> Sq(Sub(y[i], m))])
        res == SSres(y, y_pred)
    IN  IF tot = R(0) THEN (IF res = R(0) THEN R(1) ELSE R(0))
        ELSE Sub(R(1), Div(res, tot))

(* 2 * (1 - stats.t.cdf(|t|, dof)): 0 at |t| = inf, 1 at t = 0, NaN for a  *)
(* NaN t; otherwise a value strictly between, kept symbolic                *)
p_value(t, dof) ==
    IF SIsNaN(t) THEN [p |-> "nan", t2 |-> NaN, dof |-> dof]
    ELSE IF t.sq.d = 0 THEN [p |-> "0", t2 |-> t.sq, dof |-> dof]
    ELSE IF t.sg = 0 THEN [p |-> "1", t2 |-> t.sq, dof |-> dof]
    ELSE [p |-> "tcdf", t2 |-> t.sq, dof |-> dof]

(* faulty variant of estimateLR_return: r2 is handed to the caller as well *)
estimateLR_return_with_r2(slope, intercept, y_pred, p_m, p_b, r2) ==
    <<slope, intercept, y_pred, p_m, p_b, r2>>

(* line 508: the tuple the caller receives; r2 stays local (it is only     *)
(* printed when verbose is True)                                           *)
estimateLR_return(slope, intercept, y_pred, p_m, p_b, r2) ==
    <<slope, intercept, y_pred, p_m, p_b>>

(* the columns of a table, read off its first row (Obs and Sim when it has  *)
(* no row)                                                                 *)
ColumnsOf(rows) == IF Len(rows) = 0 THEN Columns ELSE DOMAIN rows[1]

(* The record keeps the locals of the call by name and, in "returned", the *)
(* tuple of the return statement.                                          *)
estimateLR(rows, fld1, fld2) ==
    IF ~({fld1, fld2} \subseteq ColumnsOf(rows))
    THEN [kind |-> "raise", exc |-> "KeyError"]
    ELSE
    LET x == Col(rows, fld1)
        y == Col(rows, fld2)
        n == Len(y)
    IN  IF polyfit_raises(x, y) # "no"
        THEN [kind |-> "raise", exc |-> polyfit_raises(x, y)]
        ELSE
        LET slope == polyfit_slope(x, y)
            intercept == polyfit_intercept(x, y)
            cov_matrix == polyfit_cov(x, y)
            y_pred == y_pred_of(slope, intercept, x)
            r2 == r2_score(y, y_pred)
            m_se == Sqrt(cov_matrix[1])
            b_se == Sqrt(cov_matrix[2])
            t_m == SDiv(SOfRat(slope), m_se)
            t_b == SDiv(SOfRat(intercept), b_se)
            dof == n - 2
        IN  [kind |-> "tuple",
             slope |-> slope,
             intercept |-> intercept,
             y_pred |-> y_pred,
             p_m |-> p_value(t_m, dof),
             p_b |-> p_value(t_b, dof),
             local_r2 |-> r2,
             returned |-> estimateLR_return(slope, intercept, y_pred,
                                            p_value(t_m, dof), p_value(t_b, dof), r2)]

(***************************************************************************)
(* Inputs and the calls.                                                   *)
(***************************************************************************)
RECURSIVE SeqsUpTo(_, _)
SeqsUpTo(S, n) ==
    IF n = 0 THEN {<<>>}
    ELSE LET P == SeqsUpTo(S, n - 1)
         IN  P \cup {Append(s, e) : s \in {t \in P : Len(t) = n - 1}, e \in S}

Row(o, s) == [Obs |-> R(o), Sim |-> R(s)]

(* rows in ascending (Obs, Sim) order *)
RowLeq(a, b) ==
    a.Obs.n < b.Obs.n \/ (a.Obs.n = b.Obs.n /\ a.Sim.n <= b.Sim.n)

RECURSIVE SortedUpTo(_, _)
SortedUpTo(S, n) ==
    IF n = 0 THEN {<<>>}
    ELSE LET P == SortedUpTo(S, n - 1)
             Q == {t \in P : Len(t) = n - 1}
         IN  P \cup UNION {{Append(s, e) :
                               e \in {f \in S : Len(s) = 0 \/ RowLeq(s[Len(s)], f)}} :
                           s \in Q}

NoCall == [op |-> "none"]

Idle == [kind |-> "idle"]

(* axes nothing has been drawn on *)
NoAxes == [texts |-> <<>>, legend |-> FALSE]

(* Complete tables of at most MaxRows rows: Obs in 0..MaxObs, Sim in        *)
(* 0..MaxSim.  Every quantity computed from a complete table is a sum over  *)
(* its rows, so the tables are enumerated up to the order of their rows     *)
(* (rows ascending); SpecNa below enumerates tables in every row order.     *)
ObsVals == {R(i) : i \in 0..MaxObs}

SimVals == {R(i) : i \in 0..MaxSim}

Tables == SortedUpTo([Obs : ObsVals, Sim : SimVals], MaxRows)

(* the two worked examples of the documentation *)
ScenarioAccuracy == <<Row(2, 2), Row(4, 4), Row(6, 6), Row(8, 8)>>

ScenarioLR == <<Row(1, 2), Row(2, 4), Row(3, 6), Row(4, 8), Row(5, 10)>>

(* tables with missing cells, in every row order *)
NaObsVals == {R(i) : i \in 1..MaxNaObs} \cup {NaN}

NaSimVals == {R(i) : i \in 1..MaxNaSim} \cup {NaN}

NaTables == SeqsUpTo([Obs : NaObsVals, Sim : NaSimVals], MaxNaRows)

Init ==
    /\ df \in Tables \cup {ScenarioAccuracy, ScenarioLR}
    /\ files = {}
    /\ ax = NoAxes
    /\ call = NoCall
    /\ result = Idle

InitNa ==
    /\ df \in NaTables
    /\ files = {}
    /\ ax = NoAxes
    /\ call = NoCall
    /\ result = Idle

CallGetScores(none, fld1, fld2) ==
    /\ call = NoCall
    /\ call' = [op |-> "getScores", none |-> none, fld1 |-> fld1, fld2 |-> fld2]
    /\ result' = getScores([none |-> none, rows |-> df], fld1, fld2)
    /\ UNCHANGED <<df, files, ax>>

CallEstimateLR(fld1, fld2) ==
    /\ call = NoCall
    /\ call' = [op |-> "estimateLR", fld1 |-> fld1, fld2 |-> fld2]
    /\ result' = estimateLR(df, fld1, fld2)
    /\ UNCHANGED <<df, files, ax>>

(* the calls the figures make on a complete table *)
Next ==
    \/ CallGetScores(FALSE, "Obs", "Sim")
    \/ CallEstimateLR("Obs", "Sim")

Spec == Init /\ [][Next]_vars

(* the regression alone, on the same tables *)
NextLR == CallEstimateLR("Obs", "Sim")

SpecLR == Init /\ [][NextLR]_vars

(* the scores alone, on the same tables *)
NextScores == CallGetScores(FALSE, "Obs", "Sim")

SpecScores == Init /\ [][NextScores]_vars

(* any call of getScores: df None or a table, each field None, a column    *)
(* of the table or a name the table does not have                          *)
NextNa ==
    \/ \E fld1 \in {None, "Obs", "Yld"}, fld2 \in {None, "Sim", "Yld"} :
          CallGetScores(FALSE, fld1, fld2)
    \/ \E fld1 \in {None, "Obs"} :
          CallGetScores(TRUE, fld1, "Sim")

SpecNa == InitNa /\ [][NextNa]_vars

(***************************************************************************)
(* getParametersForHisto (lines 605-654).                                  *)
(*                                                                         *)
(* data is a pandas Series of numbers.  The legend file is the sequence of *)
(* its lines; a line carries one element, as QGIS writes an SLD: its tag   *)
(* and the text between the tags.  A formatted label "lo - hi" is the pair *)
(* of the numbers it prints.                                               *)
(***************************************************************************)
RECURSIVE amin(_)
amin(a) ==
    IF Len(a) = 1 THEN a[1]
    ELSE LET m == amin(Tail(a)) IN IF Leq(a[1], m) THEN a[1] ELSE m

RECURSIVE amax(_)
amax(a) ==
    IF Len(a) = 1 THEN a[1]
    ELSE LET m == amax(Tail(a)) IN IF Leq(m, a[1]) THEN a[1] ELSE m

(* np.linspace(start, stop, num) *)
linspace(start, stop, num) ==
    [i \in 1..num |->
        IF num = 1 THEN start
        ELSE Add(start, Mul(R(i - 1), Div(Sub(stop, start), R(num - 1))))]

Thousandth == [n |-> 1, d |-> 1000]

(* pd.cut with an integer bins: "`bins` should be a positive integer.",    *)
(* then "Cannot cut empty array"                                           *)
pd_cut_raises(data, bins) ==
    IF bins < 1 THEN "ValueError"
    ELSE IF Len(data) = 0 THEN "ValueError"
    ELSE "no"

(* pd.cut, the bin edges: bins + 1 equally spaced points over the range of *)
(* the data; a zero range is widened by 0.1% of the value (0.001 at 0)     *)
(* before, the first edge is lowered by 0.1% of the range after            *)
pd_cut_bins(data, bins) ==
    LET mn == amin(data)
        mx == amax(data)
    IN  IF mn = mx
        THEN LET w == IF mn # R(0) THEN Mul(Thousandth, Abs(mn)) ELSE Thousandth
             IN  linspace(Sub(mn, w), Add(mx, w), bins + 1)
        ELSE LET b == linspace(mn, mx, bins + 1)
                 adj == Mul(Sub(mx, mn), Thousandth)
             IN  [b EXCEPT ![1] = Sub(b[1], adj)]

(* -floor(log10(f)) for 0 < f < 1 *)
RECURSIVE NegFloorLog10(_, _)
NegFloorLog10(f, k) ==
    IF f.n * Pow10(k) >= f.d THEN k ELSE NegFloorLog10(f, k + 1)

(* pandas _round_frac: precision counts significant digits below 1 *)
round_frac(x, precision) ==
    IF x.d = 0 \/ x.n = 0 THEN x
    ELSE IF IAbs(x.n) < x.d
         THEN Round(x, NegFloorLog10(Abs(x), 1) - 1 + precision)
         ELSE Round(x, precision)

(* pandas _infer_precision: the first precision in base_precision..19 at   *)
(* which the rounded edges are distinct, else base_precision               *)
RECURSIVE infer_precision_from(_, _, _)
infer_precision_from(precision, base_precision, bins) ==
    IF precision >= 20 THEN base_precision
    ELSE IF Cardinality({round_frac(bins[i], precision) : i \in 1..Len(bins)}) = Len(bins)
         THEN precision
         ELSE infer_precision_from(precision + 1, base_precision, bins)

infer_precision(base_precision, bins) ==
    infer_precision_from(base_precision, base_precision, bins)

(* pandas _format_labels (right=True, include_lowest=False): the breaks of *)
(* the categories                                                          *)
format_labels(bins, precision) ==
    LET p == infer_precision(precision, bins)
    IN  [i \in 1..Len(bins) |-> round_frac(bins[i], p)]

(* faulty variant of rangos_of_counts: only the categories that hold data  *)
rangos_observed_only(data, bins, precision) ==
    LET e == pd_cut_bins(data, bins)
        breaks == format_labels(e, precision)
        all == [i \in 1..bins |-> [lo |-> breaks[i], hi |-> breaks[i + 1]]]
        held == {i \in 1..bins :
                   \E k \in 1..Len(data) : Lt(e[i], data[k]) /\ Leq(data[k], e[i + 1])}
    IN  SelectSeq(all, LAMBDA l : \E i \in held : all[i] = l)

(* lines 634, 645-646: one label per category of counts, in ascending      *)
(* order; value_counts() of a categorical lists every category, the empty  *)
(* ones included, and round() leaves a categorical as it is                *)
rangos_of_counts(data, bins, precision) ==
    LET breaks == format_labels(pd_cut_bins(data, bins), precision)
    IN  [i \in 1..bins |-> [lo |-> breaks[i], hi |-> breaks[i + 1]]]

(* np.histogram, the edges for an integer bins: the range of the data, a   *)
(* zero range widened by 0.5 on both sides                                 *)
histogram_bin_edges(data, bins) ==
    LET first_edge == amin(data)
        last_edge == amax(data)
    IN  IF first_edge = last_edge
        THEN linspace(Sub(first_edge, [n |-> 1, d |-> 2]),
                      Add(last_edge, [n |-> 1, d |-> 2]), bins + 1)
        ELSE linspace(first_edge, last_edge, bins + 1)

(* np.histogram with a list of edges: "`bins` must increase monotonically" *)
histogram_raises(edges) ==
    IF \E i \in 1..(Len(edges) - 1) : Lt(edges[i + 1], edges[i]) THEN "ValueError"
    ELSE "no"

(* faulty variant of histogram_counts: one bin per edge *)
histogram_counts_per_edge(data, edges) ==
    [i \in 1..Len(edges) |->
        Cardinality({k \in 1..Len(data) :
            /\ Leq(edges[i], data[k])
            /\ i < Len(edges) => Lt(data[k], edges[i + 1])})]

(* np.histogram, the counts: every bin is half open [lo, hi) but the last, *)
(* which is closed; fewer than two edges give no bin                       *)
histogram_counts(data, edges) ==
    [i \in 1..(IF Len(edges) = 0 THEN 0 ELSE Len(edges) - 1) |->
        Cardinality({k \in 1..Len(data) :
            /\ Leq(edges[i], data[k])
            /\ \/ Lt(data[k], edges[i + 1])
               \/ i = Len(edges) - 1 /\ data[k] = edges[i + 1]})]

(* line 618: the quotes are removed and &lt; / &gt; are unescaped *)
label_of(text) ==
    CASE text = "&gt; 1" -> "> 1"
      [] text = "&lt; 3" -> "< 3"
      [] OTHER -> text

(* line 622: float(literal) *)
float_of(text) ==
    CASE text = "0" -> R(0)
      [] text = "1" -> R(1)
      [] text = "1.0" -> R(1)
      [] text = "2" -> R(2)
      [] text = "2.0" -> R(2)
      [] text = "3" -> R(3)

(* ascending insertion of a number absent from s *)
RECURSIVE SortedInsert(_, _)
SortedInsert(s, v) ==
    IF Len(s) = 0 THEN <<v>>
    ELSE IF Leq(v, s[1]) THEN <<v>> \o s
    ELSE <<s[1]>> \o SortedInsert(Tail(s), v)

(* lines 627-628: sorted(list(set(sorted(bin_edges)))) *)
RECURSIVE sorted_set(_)
sorted_set(s) ==
    IF Len(s) = 0 THEN <<>>
    ELSE LET r == sorted_set(Tail(s))
         IN  IF \E i \in 1..Len(r) : r[i] = s[1] THEN r ELSE SortedInsert(r, s[1])

(* faulty variant of getLegendFromQGIS_SLD: the edges keep the order and   *)
(* the repetitions of the document                                         *)
getLegendFromQGIS_SLD_unsorted(lines) ==
    LET of(tag) == SelectSeq(lines, LAMBDA l : l.tag = tag)
        titles == of("se:Title")
        literals == of("ogc:Literal")
        fills == of("se:SvgParameter")
    IN  [legendLabels |-> [i \in 1..Len(titles) |-> label_of(titles[i].text)],
         legendColors |-> [i \in 1..Len(fills) |-> fills[i].text],
         bin_edges |-> [i \in 1..Len(literals) |-> float_of(literals[i].text)]]

(* faulty variant of getLegendFromQGIS_SLD: a rule without a title gets an *)
(* empty label                                                             *)
getLegendFromQGIS_SLD_padded(lines) ==
    LET of(tag) == SelectSeq(lines, LAMBDA l : l.tag = tag)
        titles == of("se:Title")
        literals == of("ogc:Literal")
        fills == of("se:SvgParameter")
    IN  [legendLabels |-> [i \in 1..Len(fills) |->
                              IF i <= Len(titles) THEN label_of(titles[i].text) ELSE ""],
         legendColors |-> [i \in 1..Len(fills) |-> fills[i].text],
         bin_edges |-> sorted_set([i \in 1..Len(literals) |-> float_of(literals[i].text)])]

(* lines 609-629: titles and fill colours in the order of the document,    *)
(* the literals as numbers, distinct and ascending                         *)
getLegendFromQGIS_SLD(lines) ==
    LET of(tag) == SelectSeq(lines, LAMBDA l : l.tag = tag)
        titles == of("se:Title")
        literals == of("ogc:Literal")
        fills == of("se:SvgParameter")
    IN  [legendLabels |-> [i \in 1..Len(titles) |-> label_of(titles[i].text)],
         legendColors |-> [i \in 1..Len(fills) |-> fills[i].text],
         bin_edges |-> sorted_set([i \in 1..Len(literals) |-> float_of(literals[i].text)])]

(* The five values of line 654 are the fields of the record; bins_ud and   *)
(* yield_palette say which kind of value they hold.                        *)
getParametersForHisto(data, sldfile, bins, cmap, precision) ==
    IF pd_cut_raises(data, bins) # "no"
    THEN [kind |-> "raise", exc |-> pd_cut_raises(data, bins)]
    ELSE IF ~sldfile.none
    THEN LET legend == getLegendFromQGIS_SLD(sldfile.lines)
             rangos == legend.legendLabels
             yield_palette == legend.legendColors
             bins_ud == legend.bin_edges
         IN  IF Len(rangos) # Len(yield_palette)
             THEN [kind |-> "raise", exc |-> "AssertionError"]
             ELSE IF histogram_raises(bins_ud) # "no"
             THEN [kind |-> "raise", exc |-> histogram_raises(bins_ud)]
             ELSE [kind |-> "five",
                   hist |-> histogram_counts(data, bins_ud),
                   bin_edges |-> bins_ud,
                   rangos |-> rangos,
                   yield_palette |-> [none |-> FALSE, colors |-> yield_palette],
                   bins_ud |-> [type |-> "list", value |-> bins_ud]]
    ELSE LET rangos == rangos_of_counts(data, bins, precision)
             bin_edges == histogram_bin_edges(data, Len(rangos))
             hist == histogram_counts(data, bin_edges)
         IN  [kind |-> "five",
              hist |-> hist,
              bin_edges |-> bin_edges,
              rangos |-> rangos,
              yield_palette |->
                  IF cmap # None
                  THEN [none |-> FALSE, colors |-> linspace(R(0), R(1), Len(hist))]
                  ELSE [none |-> TRUE, colors |-> <<>>],
              bins_ud |-> [type |-> "int", value |-> bins]]

(* Data: at most MaxDataLen numbers of 0..MaxData, up to their order.      *)
RECURSIVE AscendingUpTo(_, _)
AscendingUpTo(m, n) ==
    IF n = 0 THEN {<<>>}
    ELSE LET P == AscendingUpTo(m, n - 1)
             Q == {t \in P : Len(t) = n - 1}
         IN  P \cup UNION {{Append(s, R(v)) :
                               v \in {w \in 0..m : Len(s) = 0 \/ s[Len(s)].n <= w}} :
                           s \in Q}

DataSets == AscendingUpTo(MaxData, MaxDataLen)

Line(tag, text) == [tag |-> tag, text |-> text]

(* The rules of a legend: three complete entries, one without its title    *)
(* and one without its fill colour.                                        *)
Rule(title, lo, hi, fill) ==
    <<Line("se:Rule", "")>>
    \o (IF title # None THEN <<Line("se:Title", title)>> ELSE <<>>)
    \o <<Line("ogc:Literal", lo), Line("ogc:Literal", hi)>>
    \o (IF fill # None THEN <<Line("se:SvgParameter", fill)>> ELSE <<>>)

Rules ==
    {Rule("0 - 1", "0", "1", "#d7191c"),
     Rule("&gt; 1", "1.0", "2", "#fdae61"),
     Rule("&lt; 3", "2.0", "3", "#2b83ba"),
     Rule(None, "0", "1", "#d7191c"),
     Rule("&gt; 1", "1.0", "2", None)}

RECURSIVE Concat(_)
Concat(ss) == IF Len(ss) = 0 THEN <<>> ELSE Head(ss) \o Concat(Tail(ss))

SldFiles == {Concat(rs) : rs \in SeqsUpTo(Rules, MaxRules)}

NoFile == [none |-> TRUE, lines |-> <<>>]

InitHisto ==
    /\ df = <<>>
    /\ files = {}
    /\ ax = NoAxes
    /\ call = NoCall
    /\ result = Idle

CallGetParametersForHisto(data, sldfile, bins, cmap, precision) ==
    /\ call = NoCall
    /\ call' = [op |-> "getParametersForHisto", data |-> data, sldfile |-> sldfile,
                bins |-> bins, cmap |-> cmap, precision |-> precision]
    /\ result' = getParametersForHisto(data, sldfile, bins, cmap, precision)
    /\ UNCHANGED <<df, files, ax>>

(* a call without a legend file, and a call with one (bins is then 0 or    *)
(* the default 10)                                                         *)
NextHisto ==
    /\ call = NoCall
    /\ \/ \E data \in DataSets, bins \in 0..MaxBins, cmap \in {None, "viridis"},
             precision \in {0, 1} :
             CallGetParametersForHisto(data, NoFile, bins, cmap, precision)
       \/ \E data \in DataSets, lines \in SldFiles, bins \in {0, 10} :
             CallGetParametersForHisto(data, [none |-> FALSE, lines |-> lines], bins, None, 1)

SpecHisto == InitHisto /\ [][NextHisto]_vars

(***************************************************************************)
(* Properties.                                                             *)
(***************************************************************************)
ScoresCalled == call.op = "getScores"

ScoresReport == ScoresCalled /\ result.kind = "report"

LRCalled == call.op = "estimateLR"

Actual == Col(df, "Obs")

Predicted == Col(df, "Sim")

NoZeroEntry == \A i \in 1..Len(df) : df[i].Obs.n # 0 /\ df[i].Sim.n # 0

NoMissing == \A i \in 1..Len(df) : ~IsNaN(df[i].Obs) /\ ~IsNaN(df[i].Sim)

Half(k) == [n |-> 1, d |-> 2 * Pow10(k)]

(* v is q rounded to k decimals, whatever the tie rule *)
IsRounded(v, q, k) == IF q.d = 0 THEN v = q ELSE Leq(Abs(Sub(v, q)), Half(k))

(* C1: identical actual and predicted columns (no missing value, no zero,  *)
(* two distinct values) give r_squared = 1, mse = rmse = mape = 0 and      *)
(* ccc = bias_correction_factor = willmott_d = model_efficiency = 1.       *)
C1_IdenticalColumnsIdealReport ==
    (/\ ScoresCalled
     /\ call.fld1 = "Obs" /\ call.fld2 = "Sim" /\ ~call.none
     /\ Len(df) >= 1
     /\ NoMissing /\ NoZeroEntry
     /\ Actual = Predicted
     /\ \E i, j \in 1..Len(df) : df[i].Obs # df[j].Obs)
    => /\ result.kind = "report"
       /\ result.r2score = R(1)
       /\ result.mse = R(0)
       /\ result.rmse = R(0)
       /\ result.mape = R(0)
       /\ result.ccc = R(1)
       /\ result.cb = R(1)
       /\ result.d_index = R(1)
       /\ result.ef = R(1)

(* C2: with no zero entry, accuracy is 100 - M1 (M1 the MAPE over actual)  *)
(* when M1 <= 100 and otherwise 100 - M2 (M2 the MAPE over predicted), to  *)
(* the two decimals it is rounded to.                                      *)
C2_M1 ==
    Mul(Div(Sum([i \in 1..Len(Actual) |-> Div(Abs(Sub(Actual[i], Predicted[i])), Abs(Actual[i]))]),
            R(Len(df))), R(100))

C2_M2 ==
    Mul(Div(Sum([i \in 1..Len(Actual) |-> Div(Abs(Sub(Predicted[i], Actual[i])), Abs(Predicted[i]))]),
            R(Len(df))), R(100))

C2_AccuracyFallback ==
    (ScoresReport /\ NoZeroEntry)
    => IF Leq(C2_M1, R(100))
       THEN IsRounded(result.accuracy, Sub(R(100), C2_M1), 2)
       ELSE IsRounded(result.accuracy, Sub(R(100), C2_M2), 2)

C2_Witness ==
    /\ ScoresReport /\ NoZeroEntry
    /\ Len(df) >= 2
    /\ Lt(R(100), C2_M1)
    /\ ~IsRounded(result.accuracy, Sub(R(100), C2_M1), 2)
    /\ IsRounded(result.accuracy, Sub(R(100), C2_M2), 2)

(* C3: mse is the mean of the squared differences, rmse is its square      *)
(* root (rmse squared equals mse before rounding) and normalized_rmse is   *)
(* that rmse over mean(actual).                                            *)
C3_MeanSq ==
    Div(Sum([i \in 1..Len(Actual) |-> Mul(Sub(Actual[i], Predicted[i]), Sub(Actual[i], Predicted[i]))]),
        R(Len(df)))

C3_RmseIsRootOfMse ==
    (ScoresReport /\ Len(df) >= 2)
    => /\ IsRounded(result.mse, C3_MeanSq, 2)
       /\ Sq(rmse_raw(Actual, Predicted)) = C3_MeanSq
       /\ IsRounded(result.n_rmse, Div(result.rmse, Mean(Actual)), 3)

(* C4: CCC = 2 cov / (var + var + (difference of the means)^2) with the    *)
(* covariance and both variances on the divisor n.                         *)
C4_PopCov ==
    Div(Sum([i \in 1..Len(Actual) |-> Mul(Sub(Actual[i], Mean(Actual)), Sub(Predicted[i], Mean(Predicted)))]), R(Len(df)))

C4_PopVar(s) == Div(Sum([i \in 1..Len(s) |-> Sq(Sub(s[i], Mean(s)))]), R(Len(s)))

C4_CCCPopulationConvention ==
    (ScoresReport /\ Len(df) >= 2)
    => CCC(Actual, Predicted)
           = Div(Mul(R(2), C4_PopCov),
                 Add(Add(C4_PopVar(Actual), C4_PopVar(Predicted)),
                     Sq(Sub(Mean(Actual), Mean(Predicted)))))

(* C5: when Pearson's r is not zero, the concordance equals the bias       *)
(* correction factor times r (before rounding).                            *)
C5_CccEqualsCbTimesR ==
    (/\ ScoresReport
     /\ Len(df) >= 2
     /\ ~SIsNaN(Corrcoef(Actual, Predicted))
     /\ Corrcoef(Actual, Predicted).sg # 0)
    => SOfRat(CCC(Actual, Predicted))
           = SMul(Cb(Actual, Predicted), Corrcoef(Actual, Predicted))

(* C6: when sum((|predicted - mean(actual)| + |actual - mean(actual)|)^2)  *)
(* is not zero, the d-index lies in [0, 1].                                *)
C6_Denominator ==
    Sum([i \in 1..Len(Actual) |-> Sq(Add(Abs(Sub(Predicted[i], Mean(Actual))), Abs(Sub(Actual[i], Mean(Actual)))))])

C6_WillmottBounded ==
    (ScoresReport /\ C6_Denominator # R(0))
    => /\ Leq(R(0), d_index_raw(Actual, Predicted))
       /\ Leq(d_index_raw(Actual, Predicted), R(1))
       /\ Leq(R(0), result.d_index)
       /\ Leq(result.d_index, R(1))

C6_Witness ==
    /\ ScoresReport /\ C6_Denominator # R(0)
    /\ Len(df) >= 3
    /\ Lt(R(0), result.d_index)
    /\ Lt(result.d_index, R(1))

(* C7: the metrics are computed over exactly the rows in which both fields *)
(* are present, in their original order and pairing.                       *)
RECURSIVE C7_PresentFrom(_, _)
C7_PresentFrom(rows, i) ==
    IF i > Len(rows) THEN <<>>
    ELSE (IF IsNaN(rows[i].Obs) \/ IsNaN(rows[i].Sim) THEN <<>> ELSE <<rows[i]>>)
         \o C7_PresentFrom(rows, i + 1)

C7_PairwiseDeletion ==
    ScoresReport
    => /\ result.df_notnull = C7_PresentFrom(df, 1)
       /\ result = getScores([none |-> FALSE, rows |-> C7_PresentFrom(df, 1)],
                             "Obs", "Sim")

C7_Witness ==
    /\ ScoresReport
    /\ Len(df) = 3
    /\ IsNaN(df[2].Obs) \/ IsNaN(df[2].Sim)
    /\ result.df_notnull = <<df[1], df[3]>>
    /\ df[1] # df[3]

(* C8: with fld1 or fld2 unset the call returns without raising and        *)
(* without a report, whatever the table holds.                             *)
C8_UnsetFieldReturnsEarly ==
    (ScoresCalled /\ (call.fld1 = None \/ call.fld2 = None))
    => result.kind = "none"

C8_Witness ==
    /\ ScoresCalled
    /\ ~call.none
    /\ call.fld1 = None /\ call.fld2 = "Sim"
    /\ Len(C7_PresentFrom(df, 1)) >= 2
    /\ result.kind = "none"

(* C9: a table with no row (left after pairwise deletion), or a field that *)
(* is not a column of the table, makes the call fail with an error.        *)
C9_EmptyOrAbsentFails ==
    (/\ ScoresCalled
     /\ ~call.none
     /\ call.fld1 # None /\ call.fld2 # None
     /\ \/ Len(C7_PresentFrom(df, 1)) = 0
        \/ call.fld1 \notin Columns
        \/ call.fld2 \notin Columns)
    => result.kind = "raise"

C9_Witness ==
    /\ ScoresCalled
    /\ ~call.none
    /\ call.fld1 = "Obs" /\ call.fld2 = "Sim"
    /\ Len(df) >= 2
    /\ Len(C7_PresentFrom(df, 1)) = 0
    /\ result = [kind |-> "raise", exc |-> "ValueError"]

(* C10: for at least 3 points with two distinct x and y = a*x + b exactly, *)
(* estimateLR returns slope a, intercept b and the predicted values y (the *)
(* R-squared of the fit is 1); x = 1..5, y = 2x gives slope 2, intercept 0.*)
C10_OnLine(a, b) ==
    \A k \in 1..Len(df) : df[k].Sim = Add(Mul(a, df[k].Obs), b)

C10_ExactLineRecovered ==
    /\ (LRCalled /\ Len(df) >= 3)
       => \A i, j \in 1..Len(df) :
            df[i].Obs # df[j].Obs
            => LET a == Div(Sub(df[j].Sim, df[i].Sim), Sub(df[j].Obs, df[i].Obs))
                   b == Sub(df[i].Sim, Mul(a, df[i].Obs))
               IN  C10_OnLine(a, b)
                   => /\ result.kind = "tuple"
                      /\ result.slope = a
                      /\ result.intercept = b
                      /\ result.y_pred = Predicted
                      /\ result.local_r2 = R(1)
    /\ (LRCalled /\ df = ScenarioLR)
       => /\ result.kind = "tuple"
          /\ result.slope = R(2)
          /\ result.intercept = R(0)

C10_Witness ==
    /\ LRCalled
    /\ df = ScenarioLR
    /\ result.kind = "tuple"
    /\ result.slope = R(2)
    /\ result.intercept = R(0)
    /\ result.y_pred = Predicted
    /\ result.local_r2 = R(1)

(* C11: for x with non-zero variance and n >= 3 the (slope, intercept)     *)
(* estimateLR returns minimises the sum of squared residuals: no perturbed *)
(* pair (slope + ds, intercept + di) gives a strictly smaller sum.         *)
C11_Deltas == {[n |-> -1, d |-> 1], [n |-> -1, d |-> 10], [n |-> 0, d |-> 1],
               [n |-> 1, d |-> 10], [n |-> 1, d |-> 1]}

C11_SSR(slope, intercept) ==
    SSres(Col(df, "Sim"), y_pred_of(slope, intercept, Col(df, "Obs")))

C11_LeastSquares ==
    (LRCalled /\ Len(df) >= 3 /\ (\E i, j \in 1..Len(df) : df[i].Obs # df[j].Obs))
    => /\ result.kind = "tuple"
       /\ LET least == C11_SSR(result.slope, result.intercept)
          IN  \A ds, di \in C11_Deltas :
                 Leq(least, C11_SSR(Add(result.slope, ds), Add(result.intercept, di)))

C11_Witness ==
    /\ LRCalled
    /\ Len(df) >= 3
    /\ result.kind = "tuple"
    /\ result.slope.n # 0
    /\ Lt(R(0), C11_SSR(result.slope, result.intercept))
    /\ \A ds, di \in C11_Deltas \ {R(0)} :
         Lt(C11_SSR(result.slope, result.intercept),
            C11_SSR(Add(result.slope, ds), Add(result.intercept, di)))

C13_CorrSq(a, b) == Div(Sq(Cov(a, b)), Mul(Cov(a, a), Cov(b, b)))

C13_R2IsSquaredCorrelation ==
    (LRCalled /\ result.kind = "tuple")
    => result.local_r2 = C13_CorrSq(Col(df, "Sim"), result.y_pred)

(* C13 as amended: the R-squared estimateLR computes is the residual-sum   *)
(* form 1 - SS_res/SS_tot whenever y is not constant, and it coincides     *)
(* with corr(y, y_pred)^2 whenever the fitted slope is not zero.           *)
C13_SStot == Mul(R(Len(df)), Var(Col(df, "Sim")))

C13_R2IsResidualSumForm ==
    (LRCalled /\ result.kind = "tuple")
    => /\ C13_SStot # R(0)
          => result.local_r2 =
               Sub(R(1), Div(C11_SSR(result.slope, result.intercept), C13_SStot))
       /\ result.slope # R(0)
          => result.local_r2 = C13_CorrSq(Col(df, "Sim"), result.y_pred)

C13_Witness ==
    /\ LRCalled
    /\ result.kind = "tuple"
    /\ result.slope # R(0)
    /\ Lt(R(0), result.local_r2)
    /\ Lt(result.local_r2, R(1))
    /\ result.local_r2 = C13_CorrSq(Col(df, "Sim"), result.y_pred)

(* C14: for a degenerate input (all x equal, or fewer than 3 observations) *)
(* estimateLR fails with an error or returns NaN/undefined values; it      *)
(* never returns finite slope, intercept or p-values.                      *)
C14_Degenerate ==
    \/ Len(df) < 3
    \/ \A i, j \in 1..Len(df) : df[i].Obs = df[j].Obs

C14_DegenerateFitFails ==
    (LRCalled /\ C14_Degenerate)
    => \/ result.kind = "raise"
       \/ /\ IsNaN(result.slope)
          /\ IsNaN(result.intercept)
          /\ result.p_m.p = "nan"
          /\ result.p_b.p = "nan"

C14_Witness ==
    /\ LRCalled
    /\ Len(df) = 2
    /\ df[1].Obs # df[2].Obs
    /\ result.kind = "raise"

HistoCalled == call.op = "getParametersForHisto"

WithLegend == HistoCalled /\ ~call.sldfile.none

WithoutLegend == HistoCalled /\ call.sldfile.none

HistoReturned == HistoCalled /\ result.kind = "five"

LinesOf(tag) == SelectSeq(call.sldfile.lines, LAMBDA l : l.tag = tag)

(* C15: with a legend file, getParametersForHisto fails (AssertionError,   *)
(* unless pd.cut has already failed) whenever the number of titles differs *)
(* from the number of fill colours, and whenever it returns the labels and *)
(* the colours have equal length.                                          *)
C15_LegendMismatchFails ==
    WithLegend
    => /\ Len(LinesOf("se:Title")) # Len(LinesOf("se:SvgParameter"))
          => /\ result.kind = "raise"
             /\ (call.bins >= 1 /\ Len(call.data) > 0) => result.exc = "AssertionError"
       /\ result.kind = "five"
          => Len(result.rangos) = Len(result.yield_palette.colors)

C15_Witness ==
    /\ WithLegend
    /\ Len(LinesOf("se:Title")) = 1
    /\ Len(LinesOf("se:SvgParameter")) = 2
    /\ result = [kind |-> "raise", exc |-> "AssertionError"]

(* C16: with a legend file, the bin edges returned are exactly the         *)
(* distinct boundary literals of the file, in strictly ascending order,    *)
(* whatever their order and multiplicity in the document.                  *)
C16_Literals == {float_of(LinesOf("ogc:Literal")[i].text) : i \in 1..Len(LinesOf("ogc:Literal"))}

C16_EdgesSortedDistinct ==
    (WithLegend /\ result.kind = "five")
    => /\ {result.bin_edges[i] : i \in 1..Len(result.bin_edges)} = C16_Literals
       /\ \A i, j \in 1..Len(result.bin_edges) :
            i < j => Lt(result.bin_edges[i], result.bin_edges[j])

C16_Witness ==
    /\ WithLegend
    /\ result.kind = "five"
    /\ Len(LinesOf("ogc:Literal")) = 4
    /\ [i \in 1..4 |-> LinesOf("ogc:Literal")[i].text] = <<"1.0", "2", "0", "1">>
    /\ result.bin_edges = <<R(0), R(1), R(2)>>

(* C17: for a legend document of k entries, each with a title, a fill      *)
(* colour and boundary literals, getParametersForHisto returns k bins, k   *)
(* labels and k colours, and the i-th label and colour are those of the    *)
(* entry of the i-th bin in ascending boundary order, whatever the order   *)
(* of the entries in the document.  The entries are taken to tile a range: *)
(* k entries, k + 1 distinct boundaries.                                   *)
C17_K == Len(LinesOf("se:Rule"))

C17_Complete ==
    /\ Len(LinesOf("se:Title")) = C17_K
    /\ Len(LinesOf("se:SvgParameter")) = C17_K
    /\ Len(LinesOf("ogc:Literal")) = 2 * C17_K
    /\ Cardinality(C16_Literals) = C17_K + 1

C17_LabelsFollowBins ==
    (WithLegend /\ C17_Complete /\ result.kind = "five")
    => /\ Len(result.hist) = C17_K
       /\ Len(result.rangos) = C17_K
       /\ Len(result.yield_palette.colors) = C17_K
       /\ \A i \in 1..C17_K :
            \E j \in 1..C17_K :
               /\ float_of(LinesOf("ogc:Literal")[2 * j - 1].text) = result.bin_edges[i]
               /\ float_of(LinesOf("ogc:Literal")[2 * j].text) = result.bin_edges[i + 1]
               /\ label_of(LinesOf("se:Title")[j].text) = result.rangos[i]
               /\ LinesOf("se:SvgParameter")[j].text = result.yield_palette.colors[i]

(* C18: without a legend, for data with at least two distinct values and   *)
(* bins = b >= 1, getParametersForHisto returns b counts summing to the    *)
(* number of data values, b + 1 equally spaced edges from min(data) to     *)
(* max(data), b labels and, with a colormap, b colours sampled at equally  *)
(* spaced points of [0, 1].                                                *)
RECURSIVE C18_Total(_)
C18_Total(h) == IF Len(h) = 0 THEN 0 ELSE Head(h) + C18_Total(Tail(h))

C18_EquallySpaced(pts, lo, hi, b) ==
    /\ Len(pts) = b + 1
    /\ pts[1] = lo
    /\ pts[b + 1] = hi
    /\ \A i \in 1..b : Sub(pts[i + 1], pts[i]) = Div(Sub(hi, lo), R(b))

C18_TwoDistinct == \E i, j \in 1..Len(call.data) : call.data[i] # call.data[j]

C18_EqualWidthBins ==
    (WithoutLegend /\ C18_TwoDistinct /\ call.bins >= 1)
    => /\ result.kind = "five"
       /\ Len(result.hist) = call.bins
       /\ C18_Total(result.hist) = Len(call.data)
       /\ C18_EquallySpaced(result.bin_edges, amin(call.data), amax(call.data), call.bins)
       /\ Len(result.rangos) = call.bins
       /\ call.cmap # None
          => /\ ~result.yield_palette.none
             /\ IF call.bins = 1 THEN result.yield_palette.colors = <<R(0)>>
                ELSE C18_EquallySpaced(result.yield_palette.colors, R(0), R(1), call.bins - 1)

C18_Witness ==
    /\ WithoutLegend
    /\ C18_TwoDistinct
    /\ call.bins = 3
    /\ call.cmap # None
    /\ result.kind = "five"
    /\ result.hist = <<1, 0, 1>>
    /\ Len(result.rangos) = 3

(* C19: without a legend, the counts returned use right-edge-inclusive     *)
(* intervals: a value equal to an interior edge is counted in the bin      *)
(* whose upper edge it is, and only the first bin includes both its edges. *)
C19_RightInclusiveCounts ==
    (WithoutLegend /\ result.kind = "five")
    => \A i \in 1..Len(result.hist) :
         result.hist[i] = Cardinality({k \in 1..Len(call.data) :
            /\ Leq(call.data[k], result.bin_edges[i + 1])
            /\ \/ Lt(result.bin_edges[i], call.data[k])
               \/ i = 1 /\ call.data[k] = result.bin_edges[1]})

(* C20 as stated: the fifth value returned is an integer equal to the      *)
(* number of bins of the returned histogram, with and without a legend.    *)
C20_FifthIsBinCount ==
    HistoReturned
    => /\ result.bins_ud.type = "int"
       /\ result.bins_ud.value = Len(result.hist)

(* C20 as amended: without a legend the fifth value returned is the        *)
(* requested bins, an integer equal to the number of bins of the returned  *)
(* histogram; with a legend it is the list of bin edges read from the      *)
(* file, the returned bin edges, one more than the bins of the returned    *)
(* histogram when the file has a boundary literal.                         *)
C20_FifthIsBinsOrEdges ==
    HistoReturned
    => IF call.sldfile.none
       THEN /\ result.bins_ud.type = "int"
            /\ result.bins_ud.value = call.bins
            /\ result.bins_ud.value = Len(result.hist)
       ELSE /\ result.bins_ud.type = "list"
            /\ result.bins_ud.value = result.bin_edges
            /\ Len(result.bins_ud.value) >= 1
               => Len(result.hist) = Len(result.bins_ud.value) - 1

C20_Witness ==
    /\ WithLegend
    /\ result.kind = "five"
    /\ call.bins = 10
    /\ result.bins_ud.type = "list"
    /\ Len(result.bins_ud.value) = 3
    /\ Len(result.hist) = 2

(* C21: when every data value is the same and no legend file is given,     *)
(* getParametersForHisto raises or returns a single bin; it never returns  *)
(* the requested number (more than one) of bins.                           *)
C21_ZeroVarianceGuarded ==
    (/\ WithoutLegend
     /\ Len(call.data) >= 1
     /\ \A i \in 1..Len(call.data) : call.data[i] = call.data[1]
     /\ call.bins > 1)
    => \/ result.kind = "raise"
       \/ Len(result.hist) = 1

(* C22: two calls of getParametersForHisto with the same arguments return  *)
(* the same edges, labels and colours. getParametersForHisto is an         *)
(* operator of its arguments here, so no formula is given for it.          *)

(* C25: the mape of the report is the MAPE over actual, whatever           *)
(* getAccuracy did: when that MAPE is at most 100 accuracy is 100 - mape   *)
(* within the rounding, and when it is above 100 accuracy is 100 minus the *)
(* MAPE over predicted while mape stays the MAPE over actual.              *)
C25_MapeKeepsActualDenominator ==
    ScoresReport
    => /\ IsRounded(result.mape, C2_M1, 2)
       /\ Leq(C2_M1, R(100))
          => Leq(Abs(Sub(result.accuracy, Sub(R(100), result.mape))), Norm(1, 100))
       /\ Lt(R(100), C2_M1)
          => IsRounded(result.accuracy, Sub(R(100), C2_M2), 2)

C25_Witness ==
    /\ ScoresReport
    /\ Lt(R(100), C2_M1)
    /\ result.mape.d # 0
    /\ Lt(R(100), result.mape)
    /\ Lt(R(0), result.accuracy)
    /\ Lt(Norm(1, 100), Abs(Sub(result.accuracy, Sub(R(100), result.mape))))

(* C28: the value of Cb does not depend on the correlation. With x and y   *)
(* not constant and r # 0 it is 2 sqrt(sx2 sy2) / (sx2 + sy2 + (mean(y) -  *)
(* mean(x))^2), sx2 and sy2 the variances scaled by (k-1)/k; it lies in    *)
(* (0, 1] and is 1 exactly when the means and the variances coincide.      *)
(* With r = 0 it is 0/0, not a number.                                     *)
C28_Sx2 == Div(Mul(C4_PopVar(Predicted), R(Len(df) - 1)), R(Len(df)))

C28_Sy2 == Div(Mul(C4_PopVar(Actual), R(Len(df) - 1)), R(Len(df)))

C28_Value ==
    Surd(1, Div(Mul(R(4), Mul(C28_Sx2, C28_Sy2)),
                Sq(Add(Add(C28_Sx2, C28_Sy2), Sq(Sub(Mean(Actual), Mean(Predicted)))))))

C28_NonConstant ==
    /\ Len(df) >= 2
    /\ \E i \in 1..Len(df) : Actual[i] # Actual[1]
    /\ \E i \in 1..Len(df) : Predicted[i] # Predicted[1]

C28_CbIgnoresCorrelation ==
    (ScoresReport /\ C28_NonConstant)
    => IF C4_PopCov # R(0)
       THEN /\ Cb(Actual, Predicted) = C28_Value
            /\ result.cb = SRound(C28_Value, 2)
            /\ C28_Value.sg = 1
            /\ Lt(R(0), C28_Value.sq) /\ Leq(C28_Value.sq, R(1))
            /\ C28_Value.sq = R(1)
               <=> /\ Mean(Actual) = Mean(Predicted)
                   /\ C4_PopVar(Actual) = C4_PopVar(Predicted)
       ELSE /\ SIsNaN(Cb(Actual, Predicted))
            /\ IsNaN(result.cb)

C28_Witness ==
    /\ ScoresReport /\ C28_NonConstant
    /\ Lt(C4_PopCov, R(0))
    /\ Corrcoef(Actual, Predicted).sq # R(1)
    /\ Lt(R(0), result.cb) /\ Lt(result.cb, R(1))

(***************************************************************************)
(* estimateChangeInTmin_YieldLoss, lines 1404-1445.                        *)
(*                                                                         *)
(* df is df_pw, with the columns Loc_no, Year and avg_TMin_Hplus10dM; the  *)
(* descriptive columns Loc_desc, Country, Lat and Long, copied from the    *)
(* first row of a location into its row of the result and into the         *)
(* geometry, are left out.  The loop runs one location per step;           *)
(* call.df_ChgTMin is the table accumulated so far.                        *)
(***************************************************************************)
MaxYears == 3

(* df_pw['Loc_no'].unique(): the values in order of first appearance *)
RECURSIVE unique(_)
unique(s) ==
    IF Len(s) = 0 THEN <<>>
    ELSE LET r == unique(SubSeq(s, 1, Len(s) - 1))
         IN  IF \E i \in 1..Len(r) : r[i] = s[Len(s)] THEN r ELSE Append(r, s[Len(s)])

(* faulty variant of boolean_mask_select: the selection is a view of df_pw *)
boolean_mask_select_view(rows, _loc) ==
    [index |-> SelectSeq([i \in 1..Len(rows) |-> i], LAMBDA i : rows[i].Loc_no = _loc),
     is_copy |-> FALSE]

(* line 1407, df_pw[df_pw['Loc_no']==_loc]: the positions selected; a      *)
(* boolean mask returns a new table, never a view                          *)
boolean_mask_select(rows, _loc) ==
    [index |-> SelectSeq([i \in 1..Len(rows) |-> i], LAMBDA i : rows[i].Loc_no = _loc),
     is_copy |-> TRUE]

(* line 1408, sort_values(by=['Year']): the positions in ascending Year,   *)
(* equal years in their order of appearance                                *)
RECURSIVE sort_values(_, _)
sort_values(rows, index) ==
    IF Len(index) = 0 THEN <<>>
    ELSE LET r == sort_values(rows, SubSeq(index, 1, Len(index) - 1))
             v == index[Len(index)]
             k == Cardinality({j \in 1..Len(r) : Leq(rows[r[j]].Year, rows[v].Year)})
         IN  SubSeq(r, 1, k) \o <<v>> \o SubSeq(r, k + 1, Len(r))

(* inplace=True on the selection: df_pw itself changes only if the         *)
(* selection is a view of it                                               *)
sort_values_inplace(rows, sel) ==
    IF sel.is_copy THEN rows
    ELSE LET order == sort_values(rows, sel.index)
         IN  [i \in 1..Len(rows) |->
                 IF \E j \in 1..Len(sel.index) : sel.index[j] = i
                 THEN rows[order[CHOOSE j \in 1..Len(sel.index) : sel.index[j] = i]]
                 ELSE rows[i]]

(* faulty variant of try_except_pass: no handler, the error leaves the loop *)
try_without_except(lr) ==
    IF lr.kind = "raise" THEN "propagate" ELSE "append"

(* lines 1409 and 1427-1428, try: ... except: pass *)
try_except_pass(lr) ==
    IF lr.kind = "raise" THEN "pass" ELSE "append"

(* lines 1413-1420, the row of one location *)
ChgTMin_row(_loc, lr) ==
    [Loc_no |-> _loc,
     SlopeTMinGFill |-> lr.slope,
     p_value |-> lr.p_m,
     TMinChangeGFill |-> Mul(R(42), lr.slope),
     YldLossTon |-> Mul(Mul(R(42), lr.slope), Norm(494, 1000))]

(* faulty variant of accumulate: the new row replaces the table *)
accumulate_keeps_last(df_ChgTMin, _df) == _df

(* lines 1422-1425 *)
accumulate(df_ChgTMin, _df) ==
    IF Len(df_ChgTMin) > 0 THEN df_ChgTMin \o _df ELSE _df

(* the integers of S in ascending order *)
RECURSIVE ascending(_)
ascending(S) ==
    IF S = {} THEN <<>>
    ELSE LET m == CHOOSE x \in S : \A y \in S : x <= y
         IN  <<m>> \o ascending(S \ {m})

(* lines 1432-1434: the mean of the two columns per Loc_no, groups in      *)
(* ascending Loc_no, rounded to 3 decimals                                 *)
LocAveYld(df_ESWYT) ==
    LET keys == ascending({df_ESWYT[i].Loc_no : i \in 1..Len(df_ESWYT)})
        group(l) == SelectSeq(df_ESWYT, LAMBDA row : row.Loc_no = l)
    IN  [j \in 1..Len(keys) |->
            [Loc_no |-> keys[j],
             avg_TMin_GrainFill |-> Round(SeriesMean(Col(group(keys[j]), "avg_TMin_GrainFill")), 3),
             BLUE_YLD_t_ha |-> Round(SeriesMean(Col(group(keys[j]), "BLUE_YLD_t_ha")), 3)]]

(* faulty variant of merge_raises: an empty table merges to an empty result *)
merge_raises_never(df_ChgTMin) == "no"

(* line 1435: pd.DataFrame() has no column, so no Loc_no to merge on *)
merge_raises(df_ChgTMin) ==
    IF Len(df_ChgTMin) = 0 THEN "KeyError" ELSE "no"

(* line 1435, how='left': the rows of df_ChgTMin in their order, each with *)
(* the columns of its location in df_LocAveYld or NaN                      *)
merge_left(df_ChgTMin, df_LocAveYld) ==
    [i \in 1..Len(df_ChgTMin) |->
        LET m == SelectSeq(df_LocAveYld, LAMBDA g : g.Loc_no = df_ChgTMin[i].Loc_no)
            avg == IF Len(m) = 0 THEN NaN ELSE m[1].avg_TMin_GrainFill
            yld == IF Len(m) = 0 THEN NaN ELSE m[1].BLUE_YLD_t_ha
        IN  [Loc_no |-> df_ChgTMin[i].Loc_no,
             SlopeTMinGFill |-> df_ChgTMin[i].SlopeTMinGFill,
             p_value |-> df_ChgTMin[i].p_value,
             TMinChangeGFill |-> df_ChgTMin[i].TMinChangeGFill,
             YldLossTon |-> df_ChgTMin[i].YldLossTon,
             avg_TMin_GrainFill |-> avg,
             BLUE_YLD_t_ha |-> yld,
             \* lines 1437-1438
             YldLossPc |-> Mul(Div(df_ChgTMin[i].YldLossTon, yld), R(100))]]

PwRow(l, y, t) == [Loc_no |-> l, Year |-> R(y), avg_TMin_Hplus10dM |-> R(t)]

EswytRow(l, t, y) == [Loc_no |-> l, avg_TMin_GrainFill |-> R(t), BLUE_YLD_t_ha |-> R(y)]

(* The years of one location: 1..k in order for k up to MaxYears, all      *)
(* MaxYears years out of order, and MaxYears rows of the same year.        *)
YearSeqs ==
    {[i \in 1..k |-> i] : k \in 1..MaxYears}
    \cup {[i \in 1..MaxYears |-> IF i = 1 THEN MaxYears ELSE i - 1],
          [i \in 1..MaxYears |-> 1]}

(* the rows of location l: one of the year sequences, with a night         *)
(* temperature of 0 in every row or of 1 in one row (w) and 0 in the others *)
PwBlocks(l) ==
    UNION {{[i \in 1..Len(ys) |-> PwRow(l, ys[i], IF i = w THEN 1 ELSE 0)] : w \in 0..Len(ys)} :
           ys \in YearSeqs}

(* df_pw: no row, one location, or two locations in either order; and one  *)
(* table with the rows of two locations interleaved                        *)
PwTables ==
    {<<>>} \cup PwBlocks(1) \cup PwBlocks(2)
    \cup {a \o b : a \in PwBlocks(1), b \in PwBlocks(2)}
    \cup {b \o a : a \in PwBlocks(1), b \in PwBlocks(2)}
    \cup {<<PwRow(2, 3, 1), PwRow(1, 2, 0), PwRow(2, 1, 0), PwRow(1, 1, 0), PwRow(2, 2, 0)>>}

(* df_ESWYT: trials of location 1 only, and trials of both locations with  *)
(* a zero yield for location 2                                             *)
EswytTables ==
    {<<EswytRow(1, 1, 1), EswytRow(1, 2, 1), EswytRow(1, 2, 2)>>,
     <<EswytRow(2, 1, 0), EswytRow(1, 1, 2)>>}

InitYield ==
    /\ df \in PwTables
    /\ files = {}
    /\ ax = NoAxes
    /\ call = NoCall
    /\ result = Idle

(* lines 1404-1406: the call, up to the head of the loop *)
CallEstimateChange(df_ESWYT) ==
    /\ call = NoCall
    /\ call' = [op |-> "estimateChangeInTmin_YieldLoss", df_ESWYT |-> df_ESWYT,
                pc |-> "for", todo |-> unique(Col(df, "Loc_no")), visited |-> <<>>,
                df_ChgTMin |-> <<>>]
    /\ UNCHANGED <<df, result, files, ax>>

(* lines 1406-1428: one pass of the loop *)
ForLocation ==
    /\ call.op = "estimateChangeInTmin_YieldLoss"
    /\ call.pc = "for"
    /\ Len(call.todo) > 0
    /\ \E _loc \in {Head(call.todo)} :
       \E sel \in {boolean_mask_select(df, _loc)} :
       \E order \in {sort_values(df, sel.index)} :
       \E sorted \in {[j \in 1..Len(order) |-> df[order[j]]]} :
       \E lr \in {estimateLR(sorted, "Year", "avg_TMin_Hplus10dM")} :
       \E outcome \in {try_except_pass(lr)} :
           /\ df' = sort_values_inplace(df, sel)
           /\ IF outcome = "propagate"
              THEN /\ call' = [call EXCEPT !.pc = "end"]
                   /\ result' = [kind |-> "raise", exc |-> lr.exc]
              ELSE /\ call' = [call EXCEPT
                                 !.todo = Tail(call.todo),
                                 !.visited = Append(call.visited, _loc),
                                 !.df_ChgTMin =
                                     IF outcome = "append"
                                     THEN accumulate(call.df_ChgTMin, <<ChgTMin_row(_loc, lr)>>)
                                     ELSE call.df_ChgTMin]
                   /\ UNCHANGED result
    /\ UNCHANGED <<files, ax>>

(* lines 1430-1445: after the loop *)
MergeAndReturn ==
    /\ call.op = "estimateChangeInTmin_YieldLoss"
    /\ call.pc = "for"
    /\ Len(call.todo) = 0
    /\ call' = [call EXCEPT !.pc = "end"]
    /\ result' = IF merge_raises(call.df_ChgTMin) # "no"
                 THEN [kind |-> "raise", exc |-> merge_raises(call.df_ChgTMin)]
                 ELSE [kind |-> "gdf",
                       rows |-> merge_left(call.df_ChgTMin, LocAveYld(call.df_ESWYT))]
    /\ UNCHANGED <<df, files, ax>>

NextYield ==
    \/ \E df_ESWYT \in EswytTables : CallEstimateChange(df_ESWYT)
    \/ ForLocation
    \/ MergeAndReturn

SpecYield == InitYield /\ [][NextYield]_vars

YieldCalled == call.op = "estimateChangeInTmin_YieldLoss"

YieldEnded == YieldCalled /\ call.pc = "end"

(* the locations of df_pw in order of first appearance *)
FirstAppearance ==
    LET first == SelectSeq([i \in 1..Len(df) |-> i],
                           LAMBDA i : \A j \in 1..(i - 1) : df[j].Loc_no # df[i].Loc_no)
    IN  [k \in 1..Len(first) |-> df[first[k]].Loc_no]

LocRows(l) == SelectSeq(df, LAMBDA row : row.Loc_no = l)

(* the regression of a location succeeds: more than two rows and two       *)
(* different years (C14)                                                   *)
Succeeds(l) ==
    /\ Len(LocRows(l)) > 2
    /\ \E i, j \in 1..Len(LocRows(l)) : LocRows(l)[i].Year # LocRows(l)[j].Year

(* the least squares slope of avg_TMin_Hplus10dM on Year for location l *)
SlopeOf(l) ==
    LET x == Col(LocRows(l), "Year")
        y == Col(LocRows(l), "avg_TMin_Hplus10dM")
        n == R(Len(x))
        sx == Sum(x)
        sy == Sum(y)
        sxy == Sum([i \in 1..Len(x) |-> Mul(x[i], y[i])])
        sxx == Sum([i \in 1..Len(x) |-> Mul(x[i], x[i])])
    IN  Div(Sub(Mul(n, sxy), Mul(sx, sy)), Sub(Mul(n, sxx), Mul(sx, sx)))

(* C23: a regression that fails for one location never ends the loop:      *)
(* every location is visited, the failing ones give no row, and the rows   *)
(* of the others are those the call gives for each of them alone.          *)
C23_RowAlone(l) ==
    LET rows == LocRows(l)
        order == sort_values(rows, [i \in 1..Len(rows) |-> i])
        sorted == [j \in 1..Len(order) |-> rows[order[j]]]
        lr == estimateLR(sorted, "Year", "avg_TMin_Hplus10dM")
    IN  merge_left(<<ChgTMin_row(l, lr)>>, LocAveYld(call.df_ESWYT))[1]

C23_FailureSkipsLocation ==
    YieldEnded
    => /\ call.visited = FirstAppearance
       /\ result.kind = "raise" => result.exc = "KeyError" /\ call.df_ChgTMin = <<>>
       /\ result.kind = "gdf"
          => LET fitted == SelectSeq(FirstAppearance, Succeeds)
             IN  /\ \A i \in 1..Len(result.rows) : Succeeds(result.rows[i].Loc_no)
                 /\ result.rows = [i \in 1..Len(fitted) |-> C23_RowAlone(fitted[i])]

C23_Witness ==
    /\ YieldEnded
    /\ Len(FirstAppearance) = 2
    /\ ~Succeeds(FirstAppearance[1])
    /\ Len(LocRows(FirstAppearance[1])) > 2
    /\ Succeeds(FirstAppearance[2])
    /\ call.visited = FirstAppearance
    /\ result.kind = "gdf"
    /\ Len(result.rows) = 1
    /\ result.rows[1].Loc_no = FirstAppearance[2]

(* C26: the result has one row per location whose regression succeeded,    *)
(* in order of first appearance in df_pw, each with TMinChangeGFill =      *)
(* 42 * slope and YldLossTon = 42 * slope * 0.494.                         *)
C26_OneRowPerFittedLocation ==
    (YieldEnded /\ result.kind = "gdf")
    => LET fitted == SelectSeq(FirstAppearance, Succeeds)
       IN  /\ Len(result.rows) = Len(fitted)
           /\ \A i \in 1..Len(fitted) :
                 /\ result.rows[i].Loc_no = fitted[i]
                 /\ result.rows[i].SlopeTMinGFill = SlopeOf(fitted[i])
                 /\ result.rows[i].TMinChangeGFill = Mul(R(42), SlopeOf(fitted[i]))
                 /\ result.rows[i].YldLossTon
                        = Mul(Mul(R(42), SlopeOf(fitted[i])), Norm(494, 1000))

C26_Witness ==
    /\ YieldEnded /\ result.kind = "gdf"
    /\ Len(result.rows) = 2
    /\ result.rows[1].Loc_no = 2
    /\ result.rows[2].Loc_no = 1
    /\ Lt(result.rows[1].SlopeTMinGFill, R(0))
    /\ Lt(R(0), result.rows[2].SlopeTMinGFill)
    /\ result.rows[2].YldLossTon = Norm(10374, 1000)

(* C27: when no location has a successful regression (df_pw without a row  *)
(* included) the accumulated table has no Loc_no column and the call ends  *)
(* in the KeyError of the merge, not with an empty result.                 *)
C27_NoFitEndsInError ==
    (YieldEnded /\ \A i \in 1..Len(FirstAppearance) : ~Succeeds(FirstAppearance[i]))
    => /\ call.df_ChgTMin = <<>>
       /\ result = [kind |-> "raise", exc |-> "KeyError"]

C27_Witness ==
    /\ YieldEnded
    /\ Len(FirstAppearance) = 2
    /\ \A i \in 1..2 : ~Succeeds(FirstAppearance[i])
    /\ call.visited = FirstAppearance
    /\ result = [kind |-> "raise", exc |-> "KeyError"]

(***************************************************************************)
(* The four functions on tables they are handed: getScores and estimateLR  *)
(* on an Obs/Sim table (Sim may be missing), getParametersForHisto on its  *)
(* Obs column, estimateChangeInTmin_YieldLoss on a df_pw.                  *)
(***************************************************************************)
FrameRows == [Obs : {R(1), R(2)}, Sim : {R(1), NaN}]

FrameTables == {<<a, b, c>> : a \in FrameRows, b \in FrameRows, c \in FrameRows}

IsPw(rows) == Len(rows) > 0 /\ "Loc_no" \in DOMAIN rows[1]

InitFrame ==
    /\ df \in FrameTables \cup PwTables
    /\ files = {}
    /\ ax = NoAxes
    /\ call = NoCall
    /\ result = Idle

NextFrame ==
    \/ /\ ~IsPw(df)
       /\ call = NoCall
       /\ \/ CallGetScores(FALSE, "Obs", "Sim")
          \/ NoMissing /\ CallEstimateLR("Obs", "Sim")
          \/ \E bins \in 1..2, precision \in {0, 1} :
                CallGetParametersForHisto(Col(df, "Obs"), NoFile, bins, None, precision)
    \/ /\ IsPw(df) \/ df = <<>>
       /\ NextYield

SpecFrame == InitFrame /\ [][NextFrame]_vars

(* C24: getScores, estimateLR, getParametersForHisto and                   *)
(* estimateChangeInTmin_YieldLoss leave the tables and sequences they are  *)
(* handed as they were: no step of a call changes df, nor the df_ESWYT of  *)
(* the call.                                                               *)
C24_InputsUnchanged ==
    [][/\ df' = df
       /\ YieldCalled => call'.df_ESWYT = call.df_ESWYT]_vars

C24_Witness ==
    /\ YieldEnded
    /\ result.kind = "gdf"
    /\ \E i, j \in 1..Len(df) :
          /\ i < j
          /\ df[i].Loc_no = df[j].Loc_no
          /\ Lt(df[j].Year, df[i].Year)

(***************************************************************************)
(* addLinearReg (lines 510-529) and addLinearReg_v4 (lines 564-585): the   *)
(* annotation they write on the axes.  ax.texts is the list of annotations *)
(* on the axes; ax.legend tells whether the axes have a legend once the    *)
(* regression line is drawn without a label of its own (the axes had       *)
(* labelled artists, or a legend, before the call).                        *)
(***************************************************************************)
MaxAnnotRows == 3

(* np.polyfit(x, y, 1, full=True): no covariance, so no check of the       *)
(* number of points.  With a single x value c the system has rank 1 and    *)
(* lstsq gives the solution of minimum norm of the scaled system: slope    *)
(* mean(y) / (2 c), intercept mean(y) / 2; with c = 0 the scaling of line  *)
(* 0/0 makes the matrix NaN and lstsq fails.                               *)
polyfit_full(x, y) ==
    IF Len(x) = 0 THEN [kind |-> "raise", exc |-> "TypeError"]
    ELSE IF Sxx(x) # R(0)
    THEN [kind |-> "par", pend |-> polyfit_slope(x, y), intercept |-> polyfit_intercept(x, y)]
    ELSE IF x[1] = R(0) THEN [kind |-> "raise", exc |-> "LinAlgError"]
    ELSE [kind |-> "par",
          pend |-> Div(Mean(y), Mul(R(2), x[1])),
          intercept |-> Div(Mean(y), R(2))]

(* faulty variant of annotation_v4: R2 and the observations come from the data *)
annotation_v4_from_data(pend, intercept, r2score, n_obs, dispNumObs) ==
    [slope |-> Round(pend, 3),
     intercept |-> Round(intercept, 3),
     R2 |-> Round(r2score, 2),
     Observations |-> IF dispNumObs THEN <<n_obs>> ELSE <<>>]

(* lines 577-582: '{:.3f}' of the slope and the intercept, '{:.2f}' of     *)
(* 0.52 and, with dispNumObs, the line 'Observations: 850'                 *)
annotation_v4(pend, intercept, r2score, n_obs, dispNumObs) ==
    [slope |-> Round(pend, 3),
     intercept |-> Round(intercept, 3),
     R2 |-> Round(Norm(52, 100), 2),
     Observations |-> IF dispNumObs THEN <<850>> ELSE <<>>]

(* lines 523-528: '{:.2f}' of r2score and, with dispNumObs, the line       *)
(* 'Observations: len(df_cleaned)'                                         *)
annotation(pend, intercept, r2score, n_obs, dispNumObs) ==
    [slope |-> Round(pend, 3),
     intercept |-> Round(intercept, 3),
     R2 |-> Round(r2score, 2),
     Observations |-> IF dispNumObs THEN <<n_obs>> ELSE <<>>]

AnnotRows == [Obs : {R(1), R(2), R(3)}, Sim : {R(0), R(1), NaN}]

AnnotTables == SortedUpTo(AnnotRows, MaxAnnotRows)

InitAnnot ==
    /\ df \in AnnotTables
    /\ files = {}
    /\ ax \in {NoAxes, [texts |-> <<>>, legend |-> TRUE]}
    /\ call = NoCall
    /\ result = Idle

(* The body of addLinearReg (version "") and of addLinearReg_v4 (version   *)
(* "v4") on the columns Obs and Sim.  The line of addLinearReg carries a   *)
(* label and so always has a legend to remove; the line of addLinearReg_v4 *)
(* has none, and ax.get_legend() is None on axes without a legend.         *)
addLinearReg(version, dispNumObs) ==
    /\ call = NoCall
    /\ call' = [op |-> IF version = "v4" THEN "addLinearReg_v4" ELSE "addLinearReg",
                fld1 |-> "Obs", fld2 |-> "Sim", dispNumObs |-> dispNumObs]
    /\ \E df_cleaned \in {dropna(df, "Obs", "Sim")} :
       \E par \in {polyfit_full(Col(df_cleaned, "Obs"), Col(df_cleaned, "Sim"))} :
       \E scores \in {getScores([none |-> FALSE, rows |-> df], "Obs", "Sim")} :
          IF par.kind = "raise"
          THEN result' = par /\ ax' = ax
          ELSE IF scores.kind # "report"
          THEN result' = scores /\ ax' = ax
          ELSE /\ ax' = [texts |-> Append(ax.texts,
                                          IF version = "v4"
                                          THEN annotation_v4(par.pend, par.intercept,
                                                             scores.r2score,
                                                             Len(df_cleaned), dispNumObs)
                                          ELSE annotation(par.pend, par.intercept,
                                                          scores.r2score,
                                                          Len(df_cleaned), dispNumObs)),
                         legend |-> FALSE]
               /\ result' = IF version = "v4" /\ ~ax.legend
                            THEN [kind |-> "raise", exc |-> "AttributeError"]
                            ELSE [kind |-> "none"]
    /\ UNCHANGED <<df, files>>

CallAddLinearReg(dispNumObs) == addLinearReg("", dispNumObs)

CallAddLinearReg_v4(dispNumObs) == addLinearReg("v4", dispNumObs)

NextAnnot ==
    \/ \E dispNumObs \in BOOLEAN : CallAddLinearReg(dispNumObs)
    \/ \E dispNumObs \in BOOLEAN : CallAddLinearReg_v4(dispNumObs)

SpecAnnot == InitAnnot /\ [][NextAnnot]_vars

(* the rows of df with both cells present *)
Pairs == SelectSeq(df, LAMBDA row : ~IsNaN(row.Obs) /\ ~IsNaN(row.Sim))

(* the least squares line through the pairs, when they have two x values *)
PairsSxx == Sub(Mul(R(Len(Pairs)), Sum([i \in 1..Len(Pairs) |-> Sq(Pairs[i].Obs)])),
                Sq(Sum(Col(Pairs, "Obs"))))

PairsSyy == Sub(Mul(R(Len(Pairs)), Sum([i \in 1..Len(Pairs) |-> Sq(Pairs[i].Sim)])),
                Sq(Sum(Col(Pairs, "Sim"))))

PairsSxy == Sub(Mul(R(Len(Pairs)), Sum([i \in 1..Len(Pairs) |-> Mul(Pairs[i].Obs, Pairs[i].Sim)])),
                Mul(Sum(Col(Pairs, "Obs")), Sum(Col(Pairs, "Sim"))))

(* C30: whatever the data, addLinearReg_v4 writes an R2 of 0.52 and, with  *)
(* dispNumObs, 850 observations; only the slope and the intercept come     *)
(* from the fit.  addLinearReg writes the R2 of getScores (the squared     *)
(* correlation of the pairs, to two decimals) and the number of rows left  *)
(* after dropping the rows with a missing cell.                            *)
C30_AnnotationValues ==
    (call.op \in {"addLinearReg", "addLinearReg_v4"} /\ Len(ax.texts) > 0)
    => LET text == ax.texts[Len(ax.texts)]
           slope == Div(PairsSxy, PairsSxx)
       IN  /\ PairsSxx # R(0)
              => /\ IsRounded(text.slope, slope, 3)
                 /\ IsRounded(text.intercept,
                              Sub(Mean(Col(Pairs, "Sim")), Mul(slope, Mean(Col(Pairs, "Obs")))), 3)
           /\ IF call.op = "addLinearReg_v4"
              THEN /\ text.R2 = Norm(52, 100)
                   /\ text.Observations = IF call.dispNumObs THEN <<850>> ELSE <<>>
              ELSE /\ IsRounded(text.R2, Div(Sq(PairsSxy), Mul(PairsSxx, PairsSyy)), 2)
                   /\ text.Observations = IF call.dispNumObs THEN <<Len(Pairs)>> ELSE <<>>

C30_Witness ==
    /\ call.op = "addLinearReg_v4"
    /\ call.dispNumObs
    /\ result.kind = "none"
    /\ Len(df) = 3
    /\ Len(Pairs) = 2
    /\ PairsSxx # R(0)
    /\ Div(Sq(PairsSxy), Mul(PairsSxx, PairsSyy)) = R(1)
    /\ Len(ax.texts) = 1
    /\ ax.texts[1].R2 = Norm(52, 100)
    /\ ax.texts[1].Observations = <<850>>
    /\ ax.texts[1].slope # R(0)

(***************************************************************************)
(* The end of plotHistogram_v5 (lines 935-959) and of plotMap_Histo_v5     *)
(* (lines 1058-1137), one step per block of statements.  call.frame is the *)
(* function whose code is running, call.pc its position, call.fig the      *)
(* binding of the local name fig in each of the two functions ("None",     *)
(* "Figure" or "unbound"), call.open whether the figure is open and        *)
(* call.steps the blocks run so far.  The drawing and savefig are taken to *)
(* succeed.                                                                *)
(***************************************************************************)
Formats == {"pdf", "jpg", "png", "svg"}

(* lines 942-950: a file is written for fmt 'pdf', 'jpg' and 'png' only *)
savefig_writes(fmt) == fmt \in {"pdf", "jpg", "png"}

(* os.path.join(figures_path, "{}_{}.{}".format(fname, hoy, fmt)), the     *)
(* same path in both functions                                             *)
figure_file(fmt) == [fname |-> "Fig_X", fmt |-> fmt]

(* faulty variant of show_or_close: the figure is closed, the name is kept *)
show_or_close_keeps_name(showFig, fig) == fig

(* lines 951-957: fig.show(), or del fig before plt.close() *)
show_or_close(showFig, fig) == IF showFig THEN fig ELSE "unbound"

InitPlot ==
    /\ df = <<>>
    /\ files = {}
    /\ ax = NoAxes
    /\ call = NoCall
    /\ result = Idle

(* line 656: called with fig=None *)
CallPlotHistogram(showFig, saveFig, fmt) ==
    /\ call = NoCall
    /\ call' = [op |-> "plotHistogram_v5", dispHisto |-> FALSE,
                showFig |-> showFig, saveFig |-> saveFig, fmt |-> fmt,
                frame |-> "plotHistogram_v5", pc |-> "draw",
                fig |-> [plotHistogram_v5 |-> "None", plotMap_Histo_v5 |-> "unbound"],
                open |-> FALSE, steps |-> <<>>]
    /\ UNCHANGED <<df, result, files, ax>>

(* line 963 *)
CallPlotMap(dispHisto, showFig, saveFig, fmt) ==
    /\ call = NoCall
    /\ call' = [op |-> "plotMap_Histo_v5", dispHisto |-> dispHisto,
                showFig |-> showFig, saveFig |-> saveFig, fmt |-> fmt,
                frame |-> "plotMap_Histo_v5", pc |-> "draw",
                fig |-> [plotHistogram_v5 |-> "unbound", plotMap_Histo_v5 |-> "unbound"],
                open |-> FALSE, steps |-> <<>>]
    /\ UNCHANGED <<df, result, files, ax>>

PlotCalled == call.op \in {"plotHistogram_v5", "plotMap_Histo_v5"}

(* lines 979-1057: the figure and the map; lines 1058-1116: with dispHisto *)
(* the call of plotHistogram_v5 with the figure and the flags of the map   *)
MapDraw ==
    /\ PlotCalled
    /\ call.frame = "plotMap_Histo_v5"
    /\ call.pc = "draw"
    /\ call' = [call EXCEPT
                  !.fig = [plotHistogram_v5 |-> IF call.dispHisto THEN "Figure" ELSE "unbound",
                           plotMap_Histo_v5 |-> "Figure"],
                  !.open = TRUE,
                  !.frame = IF call.dispHisto THEN "plotHistogram_v5" ELSE "plotMap_Histo_v5",
                  !.pc = IF call.dispHisto THEN "draw" ELSE "save",
                  !.steps = Append(call.steps, <<"plotMap_Histo_v5", "draw">>)]
    /\ UNCHANGED <<df, result, files, ax>>

(* lines 711-935: the figure is made when none was handed over *)
HistoDraw ==
    /\ PlotCalled
    /\ call.frame = "plotHistogram_v5"
    /\ call.pc = "draw"
    /\ call' = [call EXCEPT
                  !.fig.plotHistogram_v5 = "Figure",
                  !.open = TRUE,
                  !.pc = "save",
                  !.steps = Append(call.steps, <<"plotHistogram_v5", "draw">>)]
    /\ UNCHANGED <<df, result, files, ax>>

(* lines 936-950 and 1118-1130 *)
Save ==
    /\ PlotCalled
    /\ call.pc = "save"
    /\ files' = IF call.saveFig /\ savefig_writes(call.fmt)
                THEN files \cup {figure_file(call.fmt)}
                ELSE files
    /\ call' = [call EXCEPT !.pc = "show",
                            !.steps = Append(call.steps, <<call.frame, "save">>)]
    /\ UNCHANGED <<df, result, ax>>

(* lines 951-957 and 1131-1137 *)
ShowOrClose ==
    /\ PlotCalled
    /\ call.pc = "show"
    /\ call' = [call EXCEPT
                  !.fig[call.frame] = show_or_close(call.showFig, call.fig[call.frame]),
                  !.open = call.showFig,
                  !.pc = "return",
                  !.steps = Append(call.steps, <<call.frame, "show">>)]
    /\ UNCHANGED <<df, result, files, ax>>

(* line 959, return fig, hx, bx: reading an unbound local raises           *)
(* UnboundLocalError, which plotMap_Histo_v5 does not catch                *)
HistoReturn ==
    /\ PlotCalled
    /\ call.frame = "plotHistogram_v5"
    /\ call.pc = "return"
    /\ IF call.fig.plotHistogram_v5 = "unbound"
       THEN /\ result' = [kind |-> "raise", exc |-> "UnboundLocalError"]
            /\ call' = [call EXCEPT !.frame = call.op, !.pc = "end"]
       ELSE IF call.op = "plotHistogram_v5"
       THEN /\ result' = [kind |-> "tuple", value |-> <<"fig", "hx", "bx">>]
            /\ call' = [call EXCEPT !.pc = "end"]
       ELSE /\ result' = result
            /\ call' = [call EXCEPT !.frame = "plotMap_Histo_v5", !.pc = "save"]
    /\ UNCHANGED <<df, files, ax>>

(* line 1137: plotMap_Histo_v5 has no return statement *)
MapReturn ==
    /\ PlotCalled
    /\ call.frame = "plotMap_Histo_v5"
    /\ call.pc = "return"
    /\ result' = [kind |-> "none"]
    /\ call' = [call EXCEPT !.pc = "end"]
    /\ UNCHANGED <<df, files, ax>>

NextPlot ==
    \/ \E showFig \in BOOLEAN, saveFig \in BOOLEAN, fmt \in Formats :
          CallPlotHistogram(showFig, saveFig, fmt)
    \/ \E dispHisto \in BOOLEAN, showFig \in BOOLEAN, saveFig \in BOOLEAN, fmt \in Formats :
          CallPlotMap(dispHisto, showFig, saveFig, fmt)
    \/ MapDraw
    \/ HistoDraw
    \/ Save
    \/ ShowOrClose
    \/ HistoReturn
    \/ MapReturn

SpecPlot == InitPlot /\ [][NextPlot]_vars

PlotEnded == PlotCalled /\ call.pc = "end"

(* the position of a block in call.steps, 0 when it has not run *)
StepAt(frame, pc) ==
    IF \E i \in 1..Len(call.steps) : call.steps[i] = <<frame, pc>>
    THEN CHOOSE i \in 1..Len(call.steps) : call.steps[i] = <<frame, pc>>
    ELSE 0

(* C29: with showFig=False plotHistogram_v5 deletes its local fig and      *)
(* closes the figure before its return statement, so the call ends in an   *)
(* error and not with (fig, hx, bx); the save block has run before, so a   *)
(* file asked for with saveFig=True is written by then; plotMap_Histo_v5   *)
(* with dispHisto=True hands showFig and saveFig on and so never reaches   *)
(* its own save block when showFig=False.                                  *)
C29_CloseBeforeReturn ==
    (PlotEnded /\ ~call.showFig /\ (call.op = "plotHistogram_v5" \/ call.dispHisto))
    => /\ result = [kind |-> "raise", exc |-> "UnboundLocalError"]
       /\ call.fig.plotHistogram_v5 = "unbound"
       /\ ~call.open
       /\ 0 < StepAt("plotHistogram_v5", "save")
       /\ StepAt("plotHistogram_v5", "save") < StepAt("plotHistogram_v5", "show")
       /\ (call.saveFig /\ savefig_writes(call.fmt)) => figure_file(call.fmt) \in files
       /\ StepAt("plotMap_Histo_v5", "save") = 0

C29_Witness ==
    /\ PlotEnded
    /\ call.op = "plotMap_Histo_v5"
    /\ call.dispHisto /\ ~call.showFig /\ call.saveFig
    /\ call.fmt = "jpg"
    /\ result = [kind |-> "raise", exc |-> "UnboundLocalError"]
    /\ files = {figure_file("jpg")}
    /\ StepAt("plotMap_Histo_v5", "save") = 0

====
